---- MODULE Spec2Model ----
(***************************************************************************)
(* Model of the trip-extractor services: the model gateway                 *)
(* (make_custom_api_request, main.py), the structured extractor            *)
(* (extract_trip_details_from_prompt, main.py) and the /process handler    *)
(* (process_query, app.py).                                                *)
(*                                                                         *)
(* Python values are tagged records; a Python str is a sequence of tokens  *)
(* (so that f-strings are concatenations and regular expressions are       *)
(* searches over the sequence); a raised exception is a value carrying its *)
(* class, matched by except clauses through the class's ancestors.         *)
(***************************************************************************)
EXTENDS Integers, Sequences, FiniteSets, TLC

VARIABLES
    API_KEY,        \* app.py: whether OLLAMA_API_KEY is set in the environment
    pc,             \* position of the request being handled
    endpoint,       \* "chat-plan" (main.py) or "process" (app.py)
    user_prompt,    \* the request's text (chat_request.message / data.query)
    upstream,       \* what the model endpoint does with this request's call
    response_data,  \* main.py: what make_custom_api_request returned
    result,         \* what the extractor / the handler returned
    from_coords,    \* get_distance_and_time: its first argument
    to_coords,      \* get_distance_and_time: its second argument
    estimate,       \* get_distance_and_time: what it returned
    trip_storage,   \* main.py: the process-wide table trip_id -> trip_data
    issued,         \* how many identifiers uuid.uuid4() has generated
    calls,          \* the outbound calls of the request being handled, in order
    http_response   \* the HTTP response of the request being handled

requestVars == <<API_KEY, endpoint, user_prompt, upstream, response_data, result>>
distanceVars == <<from_coords, to_coords, estimate>>
tripVars == <<trip_storage, issued, calls, http_response>>
vars == <<pc, requestVars, distanceVars, tripVars>>

----------------------------------------------------------------------------
\* Bounds of the model.

\* Longest reply text, in chunks (a prose word, a fence, an object, a scalar).
MaxChunks == 4
\* Largest "N days" duration a prompt names (besides the overflowing one).
MaxDuration == 2
\* date.today(), as a day number.
Today == 3
\* Last day number a date can hold (date.max); Today + MaxDuration + 2 fits.
DateMax == 9

----------------------------------------------------------------------------
\* Python values.

Null == [t |-> "null"]
Str(s) == [t |-> "str", s |-> s]
Num(n) == [t |-> "num", n |-> n]
List(l) == [t |-> "list", l |-> l]
Dict(m) == [t |-> "dict", m |-> m]

\* A key that an object does not hold (only used to enumerate objects).
Absent == [t |-> "absent"]

EmptyMap == [k \in {} |-> Null]
Put(m, k, v) == [x \in (DOMAIN m) \cup {k} |-> IF x = k THEN v ELSE m[x]]
Pop(m, ks) == [x \in (DOMAIN m) \ ks |-> m[x]]
\* dict.get(k): None when the key is absent.
Get(m, k) == IF k \in DOMAIN m THEN m[k] ELSE Null
\* dict.get(k, default)
GetOr(m, k, default) == IF k \in DOMAIN m THEN m[k] ELSE default

\* bool(v)
Truthy(v) ==
    CASE v.t = "null" -> FALSE
      [] v.t = "str"  -> Len(v.s) > 0
      [] v.t = "num"  -> v.n # 0
      [] v.t = "list" -> Len(v.l) > 0
      [] v.t = "dict" -> DOMAIN v.m # {}
      [] OTHER        -> TRUE

\* str.lower(), token by token.
LowerTok(tok) ==
    IF tok \in {"NULL", "Null", "null"} THEN "null"
    ELSE IF tok \in {"Current Location", "current location"} THEN "current location"
    ELSE IF tok \in {"Light Rain", "light rain"} THEN "light rain"
    ELSE IF tok \in {"Clear Sky", "clear sky"} THEN "clear sky"
    ELSE tok
Lower(s) == [i \in 1..Len(s) |-> LowerTok(s[i])]

----------------------------------------------------------------------------
\* Exceptions: a computation yields Ok(v) or Raise(cls, detail).

Ok(v) == [raised |-> FALSE, val |-> v]
Raise(cls, detail) == [raised |-> TRUE, cls |-> cls, detail |-> detail]

\* The classes an except clause naming one of them catches.
Ancestors(cls) ==
    CASE cls = "Timeout"         -> {"Timeout", "RequestException", "Exception"}
      [] cls = "ConnectionError" -> {"ConnectionError", "RequestException", "Exception"}
      [] cls = "HTTPError"       -> {"HTTPError", "RequestException", "Exception"}
      [] cls = "requests.JSONDecodeError" ->
             {"requests.JSONDecodeError", "json.JSONDecodeError",
              "RequestException", "ValueError", "Exception"}
      [] cls = "json.JSONDecodeError" ->
             {"json.JSONDecodeError", "ValueError", "Exception"}
      [] OTHER -> {cls, "Exception"}

Catches(handler, exc) == exc.raised /\ handler \in Ancestors(exc.cls)

----------------------------------------------------------------------------
\* The model endpoint's side of one call.

\* A response body: its raw text and, when that text is JSON, the value
\* response.json() decodes it to.
RawBody(text) == [parses |-> FALSE, text |-> text, val |-> Null]
JsonBody(v) == [parses |-> TRUE, text |-> <<"<json>">>, val |-> v]

TimeoutOutcome == [kind |-> "timeout", status |-> 0, body |-> RawBody(<<>>)]
ConnectOutcome == [kind |-> "connect", status |-> 0, body |-> RawBody(<<>>)]
HttpOutcome(status, body) == [kind |-> "http", status |-> status, body |-> body]

\* requests.post: raises on a timeout or a connection failure.
requests_post(up) ==
    CASE up.kind = "timeout" -> Raise("Timeout", "Read timed out")
      [] up.kind = "connect" -> Raise("ConnectionError", "Connection refused")
      [] OTHER               -> Ok(up)

\* response.raise_for_status(): HTTPError on a 4xx or 5xx status.
raise_for_status(up) ==
    IF 400 <= up.status /\ up.status < 600
    THEN Raise("HTTPError", ToString(up.status) \o " Error for url")
    ELSE Ok(up)

\* response.json()
response_json(body) ==
    IF body.parses THEN Ok(body.val)
    ELSE Raise("requests.JSONDecodeError", "Expecting value")

----------------------------------------------------------------------------
\* main.py: make_custom_api_request.

MetadataKeys ==
    {"context", "thinking", "done", "done_reason", "total_duration",
     "load_duration", "prompt_eval_count", "prompt_eval_duration",
     "eval_count", "eval_duration"}

\* A plausible slip: the key list misses 'eval_duration'.
StripMetadata_MissesKey(v) ==
    IF v.t = "dict" THEN Ok(Dict(Pop(v.m, MetadataKeys \ {"eval_duration"})))
    ELSE Raise(IF v.t = "list" THEN "TypeError" ELSE "AttributeError", "pop")

\* for key in [...]: response_json.pop(key, None)
StripMetadata(v) ==
    IF v.t = "dict" THEN Ok(Dict(Pop(v.m, MetadataKeys)))
    ELSE Raise(IF v.t = "list" THEN "TypeError" ELSE "AttributeError", "pop")

\* The inner try: decode, strip, return; a body that is not JSON is returned
\* as raw text.
GatewayInnerTry(up) ==
    LET j == response_json(up.body)
        r == IF j.raised THEN j ELSE StripMetadata(j.val)
    IN  IF Catches("json.JSONDecodeError", r)
        THEN Ok(Dict("raw_response" :> Str(up.body.text)))
        ELSE r

\* The outer try's body.
GatewayTry(up) ==
    LET p == requests_post(up)
        s == IF p.raised THEN p ELSE raise_for_status(up)
    IN  IF s.raised THEN s ELSE GatewayInnerTry(up)

ConnectErrorPrefix == "Failed to connect to AI service: "
UnexpectedErrorPrefix == "An unexpected error occurred: "

\* A plausible slip: no catch-all clause after RequestException.
make_custom_api_request_NoCatchAll(up) ==
    LET r == GatewayTry(up)
    IN  IF Catches("RequestException", r)
        THEN Ok(Dict("error" :> Str(<<ConnectErrorPrefix, r.detail>>)))
        ELSE r

make_custom_api_request(up) ==
    LET r == GatewayTry(up)
    IN  IF Catches("RequestException", r)
        THEN Ok(Dict("error" :> Str(<<ConnectErrorPrefix, r.detail>>)))
        ELSE IF Catches("Exception", r)
        THEN Ok(Dict("error" :> Str(<<UnexpectedErrorPrefix, r.detail>>)))
        ELSE r

----------------------------------------------------------------------------
\* Reply texts and json.loads.

\* The two delimiters of the fence pattern: three backquotes, "json" and a
\* line break; a line break and three backquotes.
FenceOpen == "[fence json]"
FenceClose == "[fence]"

\* "key": value members of an object literal, one token each.
Member(tok) ==
    CASE tok = "destination:Paris"  -> [key |-> "destination", val |-> Str(<<"Paris">>)]
      [] tok = "destination:Rome"   -> [key |-> "destination", val |-> Str(<<"Rome">>)]
      [] tok = "from:Toronto"       -> [key |-> "from", val |-> Str(<<"Toronto">>)]
      [] tok = "inbetween:one stop" -> [key |-> "inbetween", val |-> Str(<<"one stop">>)]
      [] tok = "destination:"       -> [key |-> "destination", val |-> Str(<<>>)]
      [] tok = "origin:Home"        -> [key |-> "origin", val |-> Str(<<"Home">>)]
      [] tok = "start_date:tomorrow" ->
             [key |-> "start_date", val |-> Str(<<"day-" \o ToString(Today + 1)>>)]
      [] tok = "end_date:in two days" ->
             [key |-> "end_date", val |-> Str(<<"day-" \o ToString(Today + 2)>>)]
      [] tok = "travelers:family"   ->
             [key |-> "travelers",
              val |-> Dict([adults |-> Num(2), children |-> Num(1), seniors |-> Num(0),
                            infants |-> Num(0), paratransit |-> Num(0)])]
      [] tok = "interests:[History]" ->
             [key |-> "interests", val |-> List(<<Str(<<"History">>)>>)]
      [] tok = "to:Montreal"        -> [key |-> "to", val |-> Str(<<"Montreal">>)]
      [] tok = "mode:"              -> [key |-> "mode", val |-> Str(<<>>)]
      [] tok = "time:"              -> [key |-> "time", val |-> Str(<<>>)]
      [] tok = "emotion:"           -> [key |-> "emotion", val |-> Str(<<>>)]
      [] tok = "miles:"             -> [key |-> "miles", val |-> Str(<<>>)]
      [] tok = "rating:"            -> [key |-> "rating", val |-> Str(<<>>)]
      [] tok = "via:"               -> [key |-> "via", val |-> Str(<<>>)]
      [] tok = "inbetween:[]"       -> [key |-> "inbetween", val |-> List(<<>>)]
      [] tok = "category:"          -> [key |-> "category", val |-> Str(<<>>)]
      [] tok = "transportation:Metro" ->
             [key |-> "transportation", val |-> Str(<<"Metro">>)]
      [] tok = "itinerary:null"     -> [key |-> "itinerary", val |-> Null]
      [] tok = "itinerary:[Louvre]" ->
             [key |-> "itinerary",
              val |-> List(<<Dict([day |-> Str(<<"Day 1">>),
                                   places |-> List(<<Dict([name |-> Str(<<"Louvre">>)])>>)])>>)]

MemberTokens ==
    {"destination:Paris", "destination:Rome", "from:Toronto", "inbetween:one stop",
     "destination:", "origin:Home", "start_date:tomorrow", "end_date:in two days",
     "travelers:family", "interests:[History]", "to:Montreal", "mode:", "time:",
     "emotion:", "miles:", "rating:", "via:", "inbetween:[]", "category:",
     "transportation:Metro", "itinerary:null", "itinerary:[Louvre]"}

\* JSON texts that are not objects.
Scalar(tok) ==
    CASE tok = "[1]"  -> List(<<Num(1)>>)
      [] tok = "null" -> Null

ScalarTokens == {"[1]", "null"}

\* The last member with the key wins, as in json.loads.
ObjectOf(members) ==
    LET keys == {Member(members[i]).key : i \in 1..Len(members)}
        last(k) == CHOOSE i \in 1..Len(members) :
                      /\ Member(members[i]).key = k
                      /\ \A j \in (i+1)..Len(members) : Member(members[j]).key # k
    IN  [k \in keys |-> Member(members[last(k)]).val]

json_loads(text) ==
    IF Len(text) = 1 /\ text[1] \in ScalarTokens
    THEN Ok(Scalar(text[1]))
    ELSE IF /\ Len(text) >= 2
            /\ text[1] = "{"
            /\ text[Len(text)] = "}"
            /\ \A i \in 2..(Len(text) - 1) : text[i] \in MemberTokens
    THEN Ok(Dict(ObjectOf(SubSeq(text, 2, Len(text) - 1))))
    ELSE Raise("json.JSONDecodeError", "Expecting value")

SetMin(S) == CHOOSE x \in S : \A y \in S : x <= y
SetMax(S) == CHOOSE x \in S : \A y \in S : x >= y

\* re.search of the fence pattern with a lazy (.*?) group under re.DOTALL: the
\* leftmost opening fence that a closing fence follows, and the text up to
\* the nearest closing fence.
re_search_fence(text) ==
    LET opens == {i \in 1..Len(text) :
                    /\ text[i] = FenceOpen
                    /\ \E j \in (i+1)..Len(text) : text[j] = FenceClose}
    IN  IF opens = {} THEN [found |-> FALSE, group |-> <<>>]
        ELSE LET i == SetMin(opens)
                 j == SetMin({j \in (i+1)..Len(text) : text[j] = FenceClose})
             IN  [found |-> TRUE, group |-> SubSeq(text, i + 1, j - 1)]

----------------------------------------------------------------------------
\* Dates and the duration pattern.

\* The 'YYYY-MM-DD' text of day n.
DateStr(n) == "day-" \o ToString(n)

\* date.strftime('%Y-%m-%d')
strftime(n) == <<DateStr(n)>>

\* datetime.strptime(v, '%Y-%m-%d').date()
strptime(v) ==
    IF v.t # "str" THEN Raise("TypeError", "strptime() argument 1 must be str")
    ELSE IF Len(v.s) = 1 /\ \E n \in 1..DateMax : DateStr(n) = v.s[1]
    THEN Ok(CHOOSE n \in 1..DateMax : DateStr(n) = v.s[1])
    ELSE Raise("ValueError", "time data does not match format")

\* date + timedelta(days=k)
DatePlus(n, k) ==
    IF n + k \in 1..DateMax THEN Ok(n + k)
    ELSE Raise("OverflowError", "date value out of range")

\* A run of digits too long for any date.
HugeDigits == "99999999999"
DigitTokens == {ToString(n) : n \in 0..MaxDuration} \cup {HugeDigits}

\* int(digits)
IntOf(tok) ==
    IF tok = HugeDigits THEN DateMax + 1
    ELSE CHOOSE n \in 0..MaxDuration : ToString(n) = tok

\* re.search(r'(\d+)\s*(?:days?|day|weekend)', user_prompt, re.IGNORECASE):
\* the leftmost run of digits that a day word follows.
re_search_duration(prompt) ==
    LET hits == {i \in 1..(Len(prompt) - 1) :
                    /\ prompt[i] \in DigitTokens
                    /\ prompt[i + 1] \in {"day", "days", "Days", "weekend"}}
    IN  IF hits = {} THEN [found |-> FALSE, group |-> ""]
        ELSE [found |-> TRUE, group |-> prompt[SetMin(hits)]]

----------------------------------------------------------------------------
\* main.py: extract_trip_details_from_prompt.

required_keys ==
    {"origin", "destination", "start_date", "end_date", "travelers", "interests"}
traveler_types == {"adults", "children", "seniors", "infants", "paratransit"}

\* The (details, error) pair the extractor returns.
Pair(details, error) == [details |-> details, error |-> error]

\* str(v) inside an f-string.
Format(v) == IF v.t = "str" THEN v.s ELSE <<"<" \o v.t \o ">">>

\* A plausible slip: no fence search, the text is parsed as it stands.
LadderParse_DirectOnly(text) == json_loads(text)

\* The fenced block when the pattern matches, the whole text otherwise.
LadderParse(text) ==
    LET json_match == re_search_fence(text)
    IN  IF json_match.found THEN json_loads(json_match.group)
        ELSE json_loads(text)

\* The candidate object: the parsed response text, the response mapping, or
\* the reply itself.
SelectDetails(rd) ==
    IF rd.t # "dict" THEN Ok(Null)
    ELSE IF "response" \in DOMAIN rd.m /\ rd.m["response"].t = "str"
    THEN LadderParse(rd.m["response"].s)
    ELSE IF "response" \in DOMAIN rd.m /\ rd.m["response"].t = "dict"
    THEN Ok(rd.m["response"])
    ELSE Ok(rd)

\* for key in required_keys: a missing or null key is set to None. On a list, a
\* str or a number the membership test or the item assignment raises.
FillRequired(details) ==
    IF details.t # "dict"
    THEN Raise("TypeError", "object does not support item assignment")
    ELSE Ok([k \in (DOMAIN details.m) \cup required_keys |->
                IF k \in DOMAIN details.m THEN details.m[k] ELSE Null])

\* A plausible slip: every traveler count is reset to 0.
FillTravelers_Overwrite(d) ==
    Put(d, "travelers", Dict([x \in traveler_types |-> Num(0)]))

\* A travelers value that is no dict becomes {}; each missing type becomes 0.
FillTravelers(d) ==
    LET tr == IF d["travelers"].t = "dict" THEN d["travelers"].m ELSE EmptyMap
    IN  Put(d, "travelers",
            Dict([x \in (DOMAIN tr) \cup traveler_types |->
                     IF x \in DOMAIN tr THEN tr[x] ELSE Num(0)]))

\* A null start_date becomes today.
FillStartDate(d) ==
    IF d["start_date"] = Null THEN Put(d, "start_date", Str(strftime(Today)))
    ELSE d

\* A null end_date becomes start_date + N - 1 when the prompt names N days and
\* start_date parses, today + 2 otherwise. An overflowing date is not caught
\* by the inner except (ValueError, TypeError).
FillEndDate(d, prompt) ==
    IF d["end_date"] # Null THEN Ok(d)
    ELSE LET duration_match == re_search_duration(prompt)
             start == strptime(d["start_date"])
             calc == IF start.raised THEN start
                     ELSE DatePlus(start.val, IntOf(duration_match.group) - 1)
         IN  IF duration_match.found /\ ~calc.raised
             THEN Ok(Put(d, "end_date", Str(strftime(calc.val))))
             ELSE IF /\ duration_match.found
                     /\ ~Catches("ValueError", calc)
                     /\ ~Catches("TypeError", calc)
             THEN calc
             ELSE Ok(Put(d, "end_date", Str(strftime(Today + 2))))

\* A plausible slip: the destination 'null' is not rejected.
CheckDestination_NoNullCheck(d) ==
    IF ~Truthy(d["destination"])
    THEN Ok(Pair(Null,
            Str(<<"Could not identify destination. Please specify it clearly.">>)))
    ELSE Ok(Pair(Dict(d), Null))

\* The destination test that ends the try block.
CheckDestination(d) ==
    LET dest == d["destination"]
        none == Ok(Pair(Null,
                   Str(<<"Could not identify destination. Please specify it clearly.">>)))
    IN  IF ~Truthy(dest) THEN none
        ELSE IF dest.t # "str"
        THEN Raise("AttributeError", "object has no attribute 'lower'")
        ELSE IF Lower(dest.s) = <<"null">> THEN none
        ELSE Ok(Pair(Dict(d), Null))

\* "Validate and clean details".
ValidateDetails(details, prompt) ==
    LET filled == FillRequired(details)
        dated == IF filled.raised THEN filled
                 ELSE FillEndDate(FillStartDate(FillTravelers(filled.val)), prompt)
    IN  IF dated.raised THEN dated ELSE CheckDestination(dated.val)

\* The body of the try block.
ExtractTry(rd, prompt) ==
    IF rd.t = "dict" /\ "raw_response" \in DOMAIN rd.m
    THEN Ok(Pair(Null, Str(<<"AI Service returned non-JSON text: ">>
                            \o Format(rd.m["raw_response"]))))
    ELSE LET details == SelectDetails(rd)
         IN  IF details.raised THEN details
             ELSE IF details.val = Null
             THEN Ok(Pair(Null,
                     Str(<<"Received an empty or invalid structure from AI.">>)))
             ELSE ValidateDetails(details.val, prompt)

ServiceErrorPrefix == "AI Service Error: "

extract_trip_details_from_prompt(response, prompt) ==
    IF response.raised THEN response
    ELSE LET rd == response.val
             has_error == rd.t = "dict" /\ "error" \in DOMAIN rd.m
             r == ExtractTry(rd, prompt)
         IN  IF Truthy(rd) /\ ~has_error
             THEN IF Catches("json.JSONDecodeError", r)
                  THEN Ok(Pair(Null,
                          Str(<<"AI response for trip details was not valid JSON.">>)))
                  ELSE IF Catches("Exception", r)
                  THEN Ok(Pair(Null,
                          Str(<<"An error occurred processing AI details: ", r.detail>>)))
                  ELSE r
             ELSE IF Truthy(rd) /\ has_error
             THEN Ok(Pair(Null, Str(<<ServiceErrorPrefix>> \o Format(rd.m["error"]))))
             ELSE Ok(Pair(Null,
                     Str(<<"Failed to get a valid response from the AI service.">>)))

----------------------------------------------------------------------------
\* app.py: process_query.

\* v[key] for a str key.
GetItem(v, key) ==
    IF v.t = "dict"
    THEN IF key \in DOMAIN v.m THEN Ok(v.m[key]) ELSE Raise("KeyError", key)
    ELSE Raise("TypeError", "indices must be integers")

\* v[0]
GetFirst(v) ==
    CASE v.t = "list" -> IF Len(v.l) > 0 THEN Ok(v.l[1])
                         ELSE Raise("IndexError", "list index out of range")
      [] v.t = "str"  -> IF Len(v.s) > 0 THEN Ok(Str(<<v.s[1]>>))
                         ELSE Raise("IndexError", "string index out of range")
      [] v.t = "dict" -> Raise("KeyError", "0")
      [] OTHER        -> Raise("TypeError", "object is not subscriptable")

\* data["choices"][0]["message"]["content"].strip(), then json.loads.
ParseAnswer(data) ==
    LET choices == GetItem(data, "choices")
        first == IF choices.raised THEN choices ELSE GetFirst(choices.val)
        message == IF first.raised THEN first ELSE GetItem(first.val, "message")
        content == IF message.raised THEN message ELSE GetItem(message.val, "content")
    IN  IF content.raised THEN content
        ELSE IF content.val.t # "str"
        THEN Raise("AttributeError", "object has no attribute 'strip'")
        ELSE json_loads(content.val.s)

ParseFailedMessage == "Failed to parse model output"
GroqConnectMessage == "Could not connect to Groq API"
ApiErrorPrefix == "API Error "

\* The body of the outer try block.
ProcessTry(up, query) ==
    LET posted == requests_post(up)
        data == response_json(up.body)
        extracted == ParseAnswer(data.val)
    IN  IF posted.raised THEN posted
        ELSE IF up.status = 200
        THEN IF data.raised THEN data
             ELSE IF Catches("Exception", extracted)
             THEN Ok(Dict([error |-> Str(<<ParseFailedMessage>>),
                           details |-> Str(<<extracted.detail>>),
                           raw |-> data.val]))
             ELSE Ok(Dict([query |-> Str(query), extracted |-> extracted.val]))
        ELSE Ok(Dict([error |-> Str(<<ApiErrorPrefix, ToString(up.status)>>),
                      details |-> Str(up.body.text)]))

process_query(up, api_key, query) ==
    IF ~api_key
    THEN Ok(Dict([error |-> Str(<<"Missing API Key. Set OLLAMA_API_KEY in environment variables.">>)]))
    ELSE LET r == ProcessTry(up, query)
         IN  IF Catches("Exception", r)
             THEN Ok(Dict([error |-> Str(<<GroqConnectMessage>>),
                           details |-> Str(<<r.detail>>)]))
             ELSE r

----------------------------------------------------------------------------
\* What a request can meet: reply texts, reply objects, bodies, outcomes.

ObjParis == <<"{", "destination:Paris", "}">>
ObjRome == <<"{", "destination:Rome", "}">>
ObjToronto == <<"{", "from:Toronto", "inbetween:one stop", "}">>

Chunks ==
    {<<"Sure">>, <<FenceOpen>>, <<FenceClose>>, ObjParis, ObjRome, ObjToronto,
     <<"[1]">>, <<"null">>}

RECURSIVE TextsUpTo(_)
TextsUpTo(n) ==
    IF n = 0 THEN {<<>>}
    ELSE LET shorter == TextsUpTo(n - 1)
         IN  shorter \cup {t \o c : t \in shorter, c \in Chunks}

\* Replies that hold every field of the endpoint's structure.
ObjTrip ==
    <<"{", "origin:Home", "destination:Paris", "start_date:tomorrow",
      "end_date:in two days", "travelers:family", "interests:[History]", "}">>
ObjTripNoDestination ==
    <<"{", "origin:Home", "destination:", "start_date:tomorrow",
      "end_date:in two days", "travelers:family", "interests:[History]", "}">>
ObjRoute ==
    <<"{", "from:Toronto", "to:Montreal", "mode:", "time:", "emotion:", "miles:",
      "rating:", "via:", "inbetween:[]", "category:", "}">>

FullTexts ==
    {ObjTrip, ObjTripNoDestination, ObjRoute,
     <<"Sure", FenceOpen>> \o ObjTrip \o <<FenceClose>>,
     <<"Sure", FenceOpen>> \o ObjRoute \o <<FenceClose>>}

Texts == TextsUpTo(MaxChunks) \cup FullTexts

FullTravelers ==
    Dict([adults |-> Num(2), children |-> Num(1), seniors |-> Num(0),
          infants |-> Num(0), paratransit |-> Num(0)])

OriginChoices == {Absent, Null, Str(<<"Home">>)}
DestinationChoices ==
    {Absent, Null, Str(<<>>), Str(<<"NULL">>), Str(<<"Paris">>), Num(7)}
StartDateChoices == {Absent, Str(strftime(Today + 1)), Str(<<"next week">>)}
EndDateChoices == {Absent, Str(strftime(Today + 2))}
TravelersChoices ==
    {Absent, Num(2), Dict([adults |-> Num(2)]), FullTravelers}
InterestsChoices ==
    {Absent, Str(<<"History">>), List(<<Str(<<"History">>)>>)}

\* The object holding the keys that are not Absent.
MkObj(o, d, s, e, tr, i) ==
    LET all == [origin |-> o, destination |-> d, start_date |-> s,
                end_date |-> e, travelers |-> tr, interests |-> i]
    IN  [k \in {k \in DOMAIN all : all[k] # Absent} |-> all[k]]

DetailObjs ==
    {MkObj(o, d, s, e, tr, i) :
        o \in OriginChoices, d \in DestinationChoices, s \in StartDateChoices,
        e \in EndDateChoices, tr \in TravelersChoices, i \in InterestsChoices}

\* Keys a reply mapping may hold besides the trip's.
ExtraKeyChoices ==
    {EmptyMap,
     [done |-> Num(1), eval_duration |-> Num(5)],
     [k \in MetadataKeys |-> Num(1)],
     [error |-> Str(<<"model not found">>)],
     [response |-> Num(1)]}

Merge(a, b) == [k \in (DOMAIN a) \cup (DOMAIN b) |-> IF k \in DOMAIN a THEN a[k] ELSE b[k]]

TextReplies == {JsonBody(Dict([response |-> Str(t)])) : t \in Texts}
DictReplies == {JsonBody(Dict([response |-> Dict(o)])) : o \in DetailObjs}
DirectReplies ==
    {JsonBody(Dict(Merge(o, x))) : o \in DetailObjs, x \in ExtraKeyChoices}
OtherBodies ==
    {RawBody(<<"Bad", "gateway">>), RawBody(<<>>),
     JsonBody(List(<<Num(1)>>)), JsonBody(Num(7)), JsonBody(Null),
     JsonBody(Str(<<"hello">>)),
     JsonBody(Dict([response |-> Null])),
     JsonBody(Dict([response |-> List(<<>>)])),
     JsonBody(Dict([raw_response |-> Num(1)]))}

Statuses == {200, 201, 304, 404, 500}

DefaultPrompt == <<"trip", "to", "Paris">>
Prompts ==
    {DefaultPrompt, <<"Paris", "weekend">>, <<HugeDigits, "days">>}
        \cup {<<ToString(n), "days", "in", "Paris">> : n \in 0..MaxDuration}

\* /chat-plan: the prompt and the outcome of its model call.
MainInputs ==
    (Prompts \X {HttpOutcome(200, b) : b \in DictReplies})
    \cup ({DefaultPrompt} \X
            ({TimeoutOutcome, ConnectOutcome}
             \cup {HttpOutcome(200, b) : b \in TextReplies \cup DirectReplies}
             \cup {HttpOutcome(st, b) : st \in Statuses, b \in OtherBodies}
             \cup {HttpOutcome(st, JsonBody(Dict([response |-> Str(ObjParis)]))) :
                       st \in Statuses}))

\* The chat-completion envelope around a reply.
Envelope(content) ==
    Dict([choices |-> List(<<Dict([message |-> Dict([content |-> content])])>>)])

AppBodies ==
    {JsonBody(Envelope(Str(t))) : t \in Texts}
    \cup {JsonBody(Envelope(Null)), JsonBody(Envelope(Num(7))),
          JsonBody(Dict([choices |-> List(<<>>)])),
          JsonBody(Dict(EmptyMap)), JsonBody(List(<<>>)), JsonBody(Str(<<"hello">>)),
          RawBody(<<"Bad", "gateway">>)}

\* /process: the outcome of its model call.
AppInputs ==
    {TimeoutOutcome, ConnectOutcome}
    \cup {HttpOutcome(200, b) : b \in AppBodies}
    \cup {HttpOutcome(st, b) : st \in Statuses \ {200},
                               b \in {RawBody(<<"Bad", "gateway">>),
                                      JsonBody(Envelope(Str(ObjToronto)))}}

----------------------------------------------------------------------------
\* The state machine: one request at a time.

NoCall == [kind |-> "none", status |-> 0, body |-> RawBody(<<>>)]

Init ==
    /\ API_KEY \in BOOLEAN
    /\ pc = "idle"
    /\ endpoint = "none"
    /\ user_prompt = <<>>
    /\ upstream = NoCall
    /\ response_data = Ok(Null)
    /\ result = Ok(Null)
    /\ from_coords = Null
    /\ to_coords = Null
    /\ estimate = Null
    /\ trip_storage = EmptyMap
    /\ issued = 0
    /\ calls = <<>>
    /\ http_response = Null

\* POST /chat-plan arrives; the handler calls the extractor, which calls the
\* gateway.
ChatPlanRequest ==
    /\ pc = "idle"
    /\ \E in \in MainInputs :
          /\ user_prompt' = in[1]
          /\ upstream' = in[2]
    /\ endpoint' = "chat-plan"
    /\ pc' = "gateway"
    /\ UNCHANGED <<API_KEY, response_data, result>>
    /\ UNCHANGED <<distanceVars, tripVars>>

\* make_custom_api_request returns.
GatewayReturns ==
    /\ pc = "gateway"
    /\ response_data' = make_custom_api_request(upstream)
    /\ pc' = "extract"
    /\ UNCHANGED <<API_KEY, endpoint, user_prompt, upstream, result>>
    /\ UNCHANGED <<distanceVars, tripVars>>

\* extract_trip_details_from_prompt returns.
ExtractReturns ==
    /\ pc = "extract"
    /\ result' = extract_trip_details_from_prompt(response_data, user_prompt)
    /\ pc' = "done"
    /\ UNCHANGED <<API_KEY, endpoint, user_prompt, upstream, response_data>>
    /\ UNCHANGED <<distanceVars, tripVars>>

\* POST /process is handled.
ProcessQuery ==
    /\ pc = "idle"
    /\ \E up \in AppInputs :
          /\ upstream' = up
          /\ result' = process_query(up, API_KEY, DefaultPrompt)
    /\ user_prompt' = DefaultPrompt
    /\ endpoint' = "process"
    /\ pc' = "done"
    /\ UNCHANGED <<API_KEY, response_data>>
    /\ UNCHANGED <<distanceVars, tripVars>>

\* The response is sent; the next request can come.
Respond ==
    /\ pc = "done"
    /\ pc' = "idle"
    /\ endpoint' = "none"
    /\ user_prompt' = <<>>
    /\ upstream' = NoCall
    /\ response_data' = Ok(Null)
    /\ result' = Ok(Null)
    /\ UNCHANGED API_KEY
    /\ UNCHANGED <<distanceVars, tripVars>>

Next ==
    \/ ChatPlanRequest
    \/ GatewayReturns
    \/ ExtractReturns
    \/ ProcessQuery
    \/ Respond

Spec == Init /\ [][Next]_vars

----------------------------------------------------------------------------
\* Vocabulary of the properties.

AtDone == pc = "done"
AfterGateway == pc \in {"extract", "done"} /\ endpoint = "chat-plan"
Main == AtDone /\ endpoint = "chat-plan"
App == AtDone /\ endpoint = "process"

\* The call reached the model endpoint and its answer came back.
Delivered == upstream.kind = "http"
Was2xx == Delivered /\ upstream.status \in 200..299
TransportDown == upstream.kind \in {"timeout", "connect"}

\* The extractor returned (details, None).
MainSuccess == Main /\ ~result.raised /\ result.val.details # Null
\* The extractor returned (None, message).
MainFailure ==
    Main /\ ~result.raised /\ result.val.details = Null /\ result.val.error.t = "str"
\* /process answered {query, extracted}.
AppSuccess == App /\ ~result.raised /\ "extracted" \in DOMAIN result.val.m
\* /process answered {error, ...}.
AppFailure == App /\ ~result.raised /\ "error" \in DOMAIN result.val.m

\* The fields of the /process structure.
AppSchema ==
    {"from", "to", "mode", "time", "emotion", "miles", "rating", "via",
     "inbetween", "category"}

\* The reply is a text: the "response" of a /chat-plan reply that holds
\* nothing else, or the content of a /process reply.
MainTextReply ==
    /\ endpoint = "chat-plan"
    /\ Delivered /\ upstream.status = 200 /\ upstream.body.parses
    /\ upstream.body.val.t = "dict"
    /\ DOMAIN upstream.body.val.m = {"response"}
    /\ upstream.body.val.m["response"].t = "str"
AppTextReply ==
    /\ endpoint = "process" /\ API_KEY
    /\ Delivered /\ upstream.status = 200 /\ upstream.body.parses
    /\ upstream.body.val.t = "dict"
    /\ DOMAIN upstream.body.val.m = {"choices"}
    /\ upstream.body.val.m["choices"].t = "list"
    /\ Len(upstream.body.val.m["choices"].l) = 1
    /\ upstream.body.val = Envelope(upstream.body.val.m["choices"].l[1].m["message"].m["content"])
    /\ upstream.body.val.m["choices"].l[1].m["message"].m["content"].t = "str"
TextReply == MainTextReply \/ AppTextReply
ReplyText ==
    IF endpoint = "chat-plan" THEN upstream.body.val.m["response"].s
    ELSE upstream.body.val.m["choices"].l[1].m["message"].m["content"].s

IsObject(r) == ~r.raised /\ r.val.t = "dict"

\* The first fenced block of a text: (i, j) are its fences.
IsFirstFence(t, i, j) ==
    /\ i < j /\ t[i] = FenceOpen /\ t[j] = FenceClose
    /\ \A k \in (i+1)..(j-1) : t[k] # FenceClose
    /\ \A k \in 1..(i-1) : t[k] = FenceOpen => \A l \in (k+1)..Len(t) : t[l] # FenceClose
HasFence(t) == \E i, j \in 1..Len(t) : IsFirstFence(t, i, j)

\* The text from the first "{" to the last "}", inclusive.
HasBraces(t) ==
    \E i, j \in 1..Len(t) : i < j /\ t[i] = "{" /\ t[j] = "}"
BraceSubstring(t) ==
    SubSeq(t, SetMin({i \in 1..Len(t) : t[i] = "{"}),
              SetMax({j \in 1..Len(t) : t[j] = "}"}))

\* s occurs in t as a run of consecutive tokens.
Occurs(s, t) ==
    \E i \in 0..(Len(t) - Len(s)) : SubSeq(t, i + 1, i + Len(s)) = s

\* A destination the extractor accepts.
ValidDestination(v) == v.t = "str" /\ Len(v.s) > 0 /\ Lower(v.s) # <<"null">>

----------------------------------------------------------------------------
\* C1: no exception escapes the extractor, and every record it returns holds
\* every field of its endpoint's structure (here: the key is present, whatever
\* its value).
C1_EveryFieldPresent ==
    AtDone =>
        /\ ~result.raised
        /\ MainSuccess => required_keys \subseteq DOMAIN result.val.details.m
        /\ (AppSuccess /\ result.val.m["extracted"].t = "dict") =>
              AppSchema \subseteq DOMAIN result.val.m["extracted"].m

\* C2: when no ladder step (fenced block, whole text, brace substring) yields a
\* JSON object, the outcome is a failure that carries the reply text.
NoObjectInReply ==
    /\ TextReply
    /\ ~IsObject(json_loads(ReplyText))
    /\ \A i, j \in 1..Len(ReplyText) :
          IsFirstFence(ReplyText, i, j) => ~IsObject(json_loads(SubSeq(ReplyText, i + 1, j - 1)))
    /\ HasBraces(ReplyText) => ~IsObject(json_loads(BraceSubstring(ReplyText)))
C2_FailureCarriesRaw ==
    (AtDone /\ NoObjectInReply) =>
        \/ MainFailure /\ Occurs(ReplyText, result.val.error.s)
        \/ AppFailure /\ "raw" \in DOMAIN result.val.m /\ result.val.m["raw"] = upstream.body.val

\* C3: when the text holds a fenced block that is a JSON object, /chat-plan's
\* record is built from that object, whatever else the text holds: its
\* non-null fields are the record's, and with no acceptable destination in it
\* there is no record. (/process, which has no fence step, builds no record
\* from such a text.)
C3_FencedBlockWins ==
    /\ (App /\ AppTextReply /\ HasFence(ReplyText)) => AppFailure
    /\ (Main /\ MainTextReply) =>
        \A i, j \in 1..Len(ReplyText) :
            LET fenced == json_loads(SubSeq(ReplyText, i + 1, j - 1))
            IN  (IsFirstFence(ReplyText, i, j) /\ IsObject(fenced)) =>
                  IF "destination" \in DOMAIN fenced.val.m
                     /\ ValidDestination(fenced.val.m["destination"])
                  THEN /\ MainSuccess
                       /\ \A k \in DOMAIN fenced.val.m :
                             (k # "travelers" /\ fenced.val.m[k] # Null) =>
                                 result.val.details.m[k] = fenced.val.m[k]
                  ELSE MainFailure

\* C3's case: a fenced object, then an unfenced object naming another
\* destination; the record names the fenced one.
C3_Witness ==
    /\ Main /\ MainTextReply /\ MainSuccess
    /\ \E i, j \in 1..Len(ReplyText) :
          LET fenced == json_loads(SubSeq(ReplyText, i + 1, j - 1))
              trailing == json_loads(SubSeq(ReplyText, j + 1, Len(ReplyText)))
          IN  /\ IsFirstFence(ReplyText, i, j)
              /\ IsObject(fenced) /\ IsObject(trailing)
              /\ "destination" \in DOMAIN fenced.val.m
              /\ "destination" \in DOMAIN trailing.val.m
              /\ trailing.val.m["destination"] # fenced.val.m["destination"]
              /\ result.val.details.m["destination"] = fenced.val.m["destination"]

\* C4: a text with no fenced block that is not JSON as a whole, but whose
\* first "{" to last "}" is a JSON object, yields the record of that object.
C4_BraceSubstringExtracted ==
    (AtDone /\ TextReply /\ ~HasFence(ReplyText) /\ json_loads(ReplyText).raised
        /\ HasBraces(ReplyText) /\ IsObject(json_loads(BraceSubstring(ReplyText)))) =>
        LET obj == json_loads(BraceSubstring(ReplyText)).val
        IN  /\ endpoint = "chat-plan" =>
                  (("destination" \in DOMAIN obj.m /\ ValidDestination(obj.m["destination"]))
                      => MainSuccess)
            /\ endpoint = "process" => (AppSuccess /\ result.val.m["extracted"] = obj)

\* C5: in a returned record every list field is a list (the empty list when
\* the reply's value was absent or no list) and travelers is a mapping of all
\* five counts.
C5_ShapeMismatchDefaulted ==
    /\ MainSuccess =>
          /\ result.val.details.m["interests"].t = "list"
          /\ result.val.details.m["travelers"].t = "dict"
          /\ traveler_types \subseteq DOMAIN result.val.details.m["travelers"].m
    /\ (AppSuccess /\ result.val.m["extracted"].t = "dict") =>
          /\ "inbetween" \in DOMAIN result.val.m["extracted"].m
          /\ result.val.m["extracted"].m["inbetween"].t = "list"

\* C6 (as claimed): a reply that is already an object holding exactly the
\* declared fields, each non-null and of the declared shape, comes back as a
\* record equal to it.
MainObjectReply ==
    /\ endpoint = "chat-plan"
    /\ Delivered /\ upstream.status = 200 /\ upstream.body.parses
    /\ upstream.body.val.t = "dict"
    /\ "response" \in DOMAIN upstream.body.val.m =>
          /\ DOMAIN upstream.body.val.m = {"response"}
          /\ \/ upstream.body.val.m["response"].t = "dict"
             \/ /\ upstream.body.val.m["response"].t = "str"
                /\ IsObject(json_loads(upstream.body.val.m["response"].s))
\* The object of such a reply: the parsed text or the mapping under
\* "response", else the reply mapping itself.
ReplyObject ==
    IF "response" \in DOMAIN upstream.body.val.m
    THEN IF upstream.body.val.m["response"].t = "str"
         THEN json_loads(upstream.body.val.m["response"].s).val
         ELSE upstream.body.val.m["response"]
    ELSE upstream.body.val
ConformingTrip(v) ==
    /\ v.t = "dict"
    /\ DOMAIN v.m = required_keys
    /\ \A k \in {"origin", "destination", "start_date", "end_date"} : v.m[k].t = "str"
    /\ v.m["travelers"].t = "dict"
    /\ DOMAIN v.m["travelers"].m = traveler_types
    /\ \A x \in traveler_types : v.m["travelers"].m[x].t = "num"
    /\ v.m["interests"].t = "list"
ConformingRoute(v) ==
    /\ v.t = "dict"
    /\ DOMAIN v.m = AppSchema
    /\ v.m["inbetween"].t = "list"
    /\ \A k \in AppSchema \ {"inbetween"} : v.m[k].t = "str"
C7_GatewayNeverRaises ==
    /\ AfterGateway =>
          /\ ~response_data.raised
          /\ TransportDown =>
                response_data.val =
                    Dict([error |-> Str(<<ConnectErrorPrefix, requests_post(upstream).detail>>)])
    /\ App =>
          /\ ~result.raised
          /\ (TransportDown /\ API_KEY) =>
                result.val =
                    Dict([error |-> Str(<<GroqConnectMessage>>),
                          details |-> Str(<<requests_post(upstream).detail>>)])

\* C7's case: the call timed out and the gateway returned the failure.
C7_Witness ==
    /\ AfterGateway /\ pc = "extract" /\ upstream.kind = "timeout"
    /\ ~response_data.raised
    /\ "error" \in DOMAIN response_data.val.m

\* C8: a non-2xx status is returned as a failure of its own kind (not the one
\* a timeout or a connection failure gives) that carries the status and the
\* body; a 2xx status is never returned as one.
C8_HttpErrorDistinct ==
    /\ (AfterGateway /\ Delivered /\ ~Was2xx) =>
          /\ ~response_data.raised
          /\ response_data.val.t = "dict"
          /\ "error" \in DOMAIN response_data.val.m
          /\ response_data.val.m["error"].s[1] # ConnectErrorPrefix
          /\ Occurs(<<ToString(upstream.status)>>, response_data.val.m["error"].s)
          /\ Occurs(upstream.body.text, response_data.val.m["error"].s)
    /\ (App /\ API_KEY /\ Delivered /\ ~Was2xx) =>
          /\ AppFailure
          /\ result.val.m["error"] = Str(<<ApiErrorPrefix, ToString(upstream.status)>>)
          /\ result.val.m["details"] = Str(upstream.body.text)
    /\ (App /\ API_KEY /\ Was2xx /\ AppFailure) =>
          result.val.m["error"].s[1] # ApiErrorPrefix

\* C9: after a 2xx answer, a body that is a JSON mapping is returned without
\* the metadata keys and with every other key unchanged; a body that is not
\* JSON is returned as {"raw_response": <the body text>}.
C9_MetadataStripped ==
    (AfterGateway /\ Was2xx) =>
        /\ (upstream.body.parses /\ upstream.body.val.t = "dict") =>
              /\ ~response_data.raised
              /\ response_data.val.t = "dict"
              /\ DOMAIN response_data.val.m = (DOMAIN upstream.body.val.m) \ MetadataKeys
              /\ \A k \in DOMAIN response_data.val.m :
                    response_data.val.m[k] = upstream.body.val.m[k]
        /\ ~upstream.body.parses =>
              response_data = Ok(Dict([raw_response |-> Str(upstream.body.text)]))

\* C9's case: a body with all ten metadata keys and trip keys came back
\* holding the trip keys only.
C9_Witness ==
    /\ AfterGateway /\ Was2xx /\ upstream.body.parses
    /\ upstream.body.val.t = "dict"
    /\ MetadataKeys \subseteq DOMAIN upstream.body.val.m
    /\ "destination" \in DOMAIN upstream.body.val.m
    /\ ~response_data.raised
    /\ "destination" \in DOMAIN response_data.val.m

\* C10: an answer the gateway delivered with a 2xx status is never reported
\* with the message of a transport failure, and a timeout or connection
\* failure is never reported with a message of the extractor.
ReportsTransport ==
    \/ MainFailure /\ result.val.error.s[1] = ServiceErrorPrefix
    \/ AppFailure /\ result.val.m["error"] = Str(<<GroqConnectMessage>>)
C10_OutcomesNotConflated ==
    AtDone =>
        /\ (Was2xx /\ (endpoint = "process" => API_KEY)) => ~ReportsTransport
        /\ (TransportDown /\ (endpoint = "process" => API_KEY)) => ReportsTransport

----------------------------------------------------------------------------
\* main.py: get_distance_and_time, on points of one meridian.

\* Farthest latitude a point can have (the pole), in kilometres of arc from
\* the equator.
PoleKm == 200

\* geodesic(a, b).km for two points of the meridian, their latitudes given in
\* kilometres of arc; geopy refuses a latitude beyond the pole.
geodesic(a, b) ==
    IF \E c \in {a, b} : c[1].n > PoleKm \/ c[1].n < -PoleKm
    THEN Raise("ValueError", "Latitude must be in the [-90; 90] range.")
    ELSE Ok(IF a[1].n >= b[1].n THEN a[1].n - b[1].n ELSE b[1].n - a[1].n)

\* The returned triple; time_estimate is kept in tenths of a minute, so that
\* 1.5 * d and 0.1 * d are whole numbers.
Triple(d, t10, mode) == [distance_km |-> d, time_estimate |-> t10, mode |-> mode]

get_distance_and_time_InclusiveWalk(from, to) ==
    IF \/ ~Truthy(from) \/ ~Truthy(to)
       \/ from.l[1] = Null \/ from.l[2] = Null
       \/ to.l[1] = Null \/ to.l[2] = Null
    THEN Triple(0, 0, "unknown")
    ELSE LET g == geodesic(from.l, to.l)
         IN  IF g.raised THEN Triple(0, 0, "error")
             ELSE IF g.val <= 5 THEN Triple(g.val, g.val * 120, "walk")
             ELSE IF g.val < 150 THEN Triple(g.val, g.val * 15, "drive")
             ELSE Triple(g.val, g.val + 1500, "flight")

get_distance_and_time(from, to) ==
    IF \/ ~Truthy(from) \/ ~Truthy(to)
       \/ from.l[1] = Null \/ from.l[2] = Null
       \/ to.l[1] = Null \/ to.l[2] = Null
    THEN Triple(0, 0, "unknown")
    ELSE LET g == geodesic(from.l, to.l)
             distance_km == g.val
         IN  IF g.raised THEN Triple(0, 0, "error")
             ELSE IF distance_km < 5
                  THEN Triple(distance_km, distance_km * 120, "walk")
             ELSE IF distance_km < 150
                  THEN Triple(distance_km, distance_km * 15, "drive")
             ELSE Triple(distance_km, distance_km + 1500, "flight")

\* Latitudes around the two thresholds, at the pole and beyond it.
Latitudes == {0, 4, 5, 6, 149, 150, 151, PoleKm, PoleKm + 1}

\* What a caller can pass: nothing, an empty tuple, or a (lat, lon) pair
\* either of whose components may be None.
CoordChoices ==
    {Null, List(<<>>)}
    \cup {List(<<lat, lon>>) :
            lat \in {Null} \cup {Num(n) : n \in Latitudes},
            lon \in {Null, Num(0)}}

\* The request-handling variables, at rest.
RequestAtRest ==
    /\ API_KEY = FALSE
    /\ endpoint = "none"
    /\ user_prompt = <<>>
    /\ upstream = NoCall
    /\ response_data = Ok(Null)
    /\ result = Ok(Null)

StorageAtRest ==
    /\ trip_storage = EmptyMap
    /\ issued = 0
    /\ calls = <<>>
    /\ http_response = Null

DistanceInit ==
    /\ pc = "idle"
    /\ from_coords \in CoordChoices
    /\ to_coords \in CoordChoices
    /\ estimate = Null
    /\ RequestAtRest
    /\ StorageAtRest

\* get_distance_and_time is called and returns.
EstimateDistance ==
    /\ pc = "idle"
    /\ estimate' = get_distance_and_time(from_coords, to_coords)
    /\ pc' = "done"
    /\ UNCHANGED <<from_coords, to_coords, requestVars, tripVars>>

DistanceNext == EstimateDistance

DistanceSpec == DistanceInit /\ [][DistanceNext]_vars

\* Either pair is missing or has a null component.
PairMissing(c) == ~Truthy(c) \/ c.l[1] = Null \/ c.l[2] = Null

\* C11: the neutral triple when a pair is missing or has a null component;
\* otherwise, for the distance d of the two points, walk exactly when d < 5,
\* drive exactly when 5 <= d < 150, flight exactly when d >= 150, with the
\* time 12*d, 1.5*d and 0.1*d + 150 (here in tenths of a minute).
C11_DistanceBands ==
    pc = "done" =>
        IF PairMissing(from_coords) \/ PairMissing(to_coords)
        THEN estimate = Triple(0, 0, "unknown")
        ELSE LET g == geodesic(from_coords.l, to_coords.l)
                 d == g.val
             IN  ~g.raised =>
                    /\ estimate.distance_km = d
                    /\ (estimate.mode = "walk") <=> (d < 5)
                    /\ (estimate.mode = "drive") <=> (5 <= d /\ d < 150)
                    /\ (estimate.mode = "flight") <=> (d >= 150)
                    /\ estimate.mode = "walk" => estimate.time_estimate = 120 * d
                    /\ estimate.mode = "drive" => estimate.time_estimate = 15 * d
                    /\ estimate.mode = "flight" => estimate.time_estimate = d + 1500

\* C11: two points exactly 5 apart have been classified.
C11_Witness ==
    /\ pc = "done"
    /\ ~PairMissing(from_coords) /\ ~PairMissing(to_coords)
    /\ estimate.mode = "drive"
    /\ estimate.distance_km = 5

----------------------------------------------------------------------------
\* main.py: the enrichment collaborators. Each returns what it computes (or
\* the exception it lets out) together with the outbound calls it made.

Res(out, made) == [out |-> out, calls |-> made]

\* F(v), with v computed once.
Apply(v, F(_)) == CHOOSE r \in {F(x) : x \in {v}} : TRUE

\* The next statement F runs on the value of x unless x raised.
Then(x, F(_)) == Apply(x, LAMBDA r : IF r.raised THEN r ELSE F(r.val))

\* The outcome of an outbound call is a transport failure when nothing came
\* back or a 4xx/5xx status did.
TransportFailed(up) ==
    up.kind # "http" \/ (400 <= up.status /\ up.status < 600)

CallEntry(svc, up) == [svc |-> svc, failed |-> TransportFailed(up)]

\* requests.get(url, timeout=10); response.raise_for_status(); response.json()
requests_get_json(up) ==
    Then(requests_post(up), LAMBDA got :
    Then(raise_for_status(got), LAMBDA checked :
         response_json(checked.body)))

\* dict.get on a value that may be no dict.
GetAttr(v, key) ==
    IF v.t = "dict" THEN Ok(Get(v.m, key))
    ELSE Raise("AttributeError", "object has no attribute 'get'")

NoCoords == List(<<Null, Null>>)

\* v[k] for each k of the path in turn; "[0]" is the index 0.
RECURSIVE GetPath(_, _)
GetPath(v, path) ==
    IF path = <<>> THEN Ok(v)
    ELSE Then(IF Head(path) = "[0]" THEN GetFirst(v) ELSE GetItem(v, Head(path)),
              LAMBDA item : GetPath(item, Tail(path)))

\* The try block of geocode_location.
GeocodeTry(up) ==
    Then(requests_get_json(up), LAMBDA data :
    Then(GetAttr(data, "status"), LAMBDA status :
    Then(GetAttr(data, "results"), LAMBDA results :
        IF status = Str(<<"OK">>) /\ Truthy(results)
        THEN Then(GetPath(results, <<"[0]", "geometry", "location", "lat">>), LAMBDA lat :
             Then(GetPath(results, <<"[0]", "geometry", "location", "lng">>), LAMBDA lon :
                  Ok(List(<<lat, lon>>))))
        ELSE Ok(NoCoords))))

\* A plausible slip: a geocoder call that fails is made once more.
geocode_location_Retry(location, up) ==
    IF ~Truthy(location) THEN Res(Ok(NoCoords), <<>>)
    ELSE IF location.t # "str"
    THEN Res(Raise("AttributeError", "object has no attribute 'lower'"), <<>>)
    ELSE IF Lower(location.s) = <<"current location">> THEN Res(Ok(NoCoords), <<>>)
    ELSE Apply(GeocodeTry(up), LAMBDA r :
             Res(IF Catches("Exception", r) THEN Ok(NoCoords) ELSE r,
                 IF r.raised
                 THEN <<CallEntry("geocoder", up), CallEntry("geocoder", up)>>
                 ELSE <<CallEntry("geocoder", up)>>))

\* GOOGLE_API_KEY is a non-empty literal, so only the location decides whether
\* a call is made.
geocode_location(location, up) ==
    IF ~Truthy(location) THEN Res(Ok(NoCoords), <<>>)
    ELSE IF location.t # "str"
    THEN Res(Raise("AttributeError", "object has no attribute 'lower'"), <<>>)
    ELSE IF Lower(location.s) = <<"current location">> THEN Res(Ok(NoCoords), <<>>)
    ELSE Apply(GeocodeTry(up), LAMBDA r :
             Res(IF Catches("Exception", r) THEN Ok(NoCoords) ELSE r,
                 <<CallEntry("geocoder", up)>>))

\* str.title(), token by token.
TitleTok(tok) ==
    IF tok \in {"light rain", "Light Rain"} THEN "Light Rain"
    ELSE IF tok \in {"clear sky", "Clear Sky"} THEN "Clear Sky"
    ELSE tok
Title(v) ==
    IF v.t = "str" THEN Ok(Str([i \in 1..Len(v.s) |-> TitleTok(v.s[i])]))
    ELSE Raise("AttributeError", "object has no attribute 'title'")

\* round(v, n) of a value the provider sent: a number stays, anything else is
\* a TypeError. (The model's temperatures and speeds are whole numbers.)
Round(v) ==
    IF v.t = "num" THEN Ok(v)
    ELSE Raise("TypeError", "type doesn't define __round__ method")

Unavailable ==
    Dict([temperature |-> Str(<<"N/A">>),
          description |-> Str(<<"Could not get forecast">>),
          humidity |-> Str(<<"N/A">>),
          wind_speed |-> Str(<<"N/A">>)])

\* The dict built from the weather provider's answer.
WeatherOf(data) ==
    Then(GetPath(data, <<"main", "temp">>), LAMBDA temp :
    Then(Round(temp), LAMBDA temperature :
    Then(GetPath(data, <<"weather", "[0]", "description">>), LAMBDA desc :
    Then(Title(desc), LAMBDA description :
    Then(GetPath(data, <<"main", "humidity">>), LAMBDA humidity :
    Then(GetPath(data, <<"wind", "speed">>), LAMBDA speed :
    Then(Round(speed), LAMBDA wind_speed :
         Ok(Dict([temperature |-> temperature,
                  description |-> description,
                  humidity |-> humidity,
                  wind_speed |-> wind_speed])))))))))

\* Everything runs inside one try whose except returns the sentinel; the
\* geocoder is asked again for the destination, and the weather provider only
\* when both coordinates are truthy.
get_weather_forecast(destination, up_geo, up_weather) ==
    Apply(geocode_location(destination, up_geo), LAMBDA geo :
        IF geo.out.raised THEN Res(Ok(Unavailable), geo.calls)
        ELSE IF ~Truthy(geo.out.val.l[1]) \/ ~Truthy(geo.out.val.l[2])
        THEN Res(Ok(Unavailable), geo.calls)
        ELSE Apply(Then(requests_get_json(up_weather), LAMBDA data : WeatherOf(data)),
                   LAMBDA built :
                 Res(IF Catches("Exception", built) THEN Ok(Unavailable) ELSE built,
                     geo.calls \o <<CallEntry("weather", up_weather)>>)))

\* A list of str items.
StrList(items) == List([i \in 1..Len(items) |-> Str(<<items[i]>>)])

\* The temperature the packing rules use: 20 when the forecast has none.
PackingTemp(weather_data) ==
    LET temp_str == Get(weather_data.m, "temperature")
    IN  IF temp_str.t = "num" THEN temp_str.n ELSE 20

get_packing_list(weather_data, travelers) ==
    LET temp == PackingTemp(weather_data)
        description == Get(weather_data.m, "description")
        wet == \E i \in 1..Len(description.s) :
                  Lower(description.s)[i] \in {"light rain", "rain", "shower", "drizzle"}
        base == <<"Passport/ID", "Phone charger", "Camera", "Medications">>
        kids == IF travelers.m["children"].n > 0
                THEN <<"Snacks for kids", "Entertainment for kids", "Extra clothes">>
                ELSE <<>>
        aid == IF travelers.m["paratransit"].n > 0
               THEN <<"Mobility aid", "Medical documents", "Emergency contacts">>
               ELSE <<>>
        clothing == IF temp < 10
                    THEN <<"Warm jacket", "Long pants", "Warm shoes", "Gloves", "Hat">>
                    ELSE IF temp < 20
                    THEN <<"Light jacket", "Long pants", "Comfortable shoes">>
                    ELSE <<"Light clothing", "Shorts", "Comfortable shoes",
                           "Sunglasses", "Sunscreen">>
        rain == IF wet THEN <<"Umbrella", "Rain jacket">> ELSE <<>>
    IN  StrList(base \o kids \o aid \o clothing \o rain)

\* What the first result gives: the provider's name and address for the
\* place.
PlaceFromResult(first_result, place_name) ==
    LET google_name == IF "name" \in DOMAIN first_result.m
                       THEN first_result.m["name"] ELSE place_name
        address == IF "formatted_address" \in DOMAIN first_result.m
                   THEN first_result.m["formatted_address"]
                   ELSE Str(<<"Address unavailable">>)
    IN  [name |-> google_name, photo_url |-> Null,
         map_query |-> Str(Format(google_name) \o <<", ">> \o Format(address)),
         address |-> address]

\* The try block of get_place_details: a search that fails or finds nothing
\* leaves the place as the model named it.
PlaceTry(place_name, search_query, up) ==
    LET given == [name |-> place_name, photo_url |-> Null,
                  map_query |-> search_query,
                  address |-> Str(<<"Address unavailable">>)]
    IN  Apply(Then(requests_get_json(up), LAMBDA data :
              Then(GetAttr(data, "status"), LAMBDA status :
              Then(GetAttr(data, "results"), LAMBDA results :
                  IF status = Str(<<"OK">>) /\ Truthy(results)
                  THEN GetFirst(results)
                  ELSE Ok(Null)))),
              LAMBDA first :
                  IF first.raised \/ first.val.t # "dict" THEN given
                  ELSE PlaceFromResult(first.val, place_name))

\* Never raises: a failed search leaves the place as the model named it.
get_place_details(place_name, destination, up) ==
    Res(Ok(Dict(PlaceTry(place_name,
                         Str(Format(place_name) \o <<", ">> \o Format(destination)),
                         up))),
        <<CallEntry("places", up)>>)

----------------------------------------------------------------------------
\* main.py: generate_itinerary.

\* ', '.join(interests): a str or a list of str joins, anything else is a
\* TypeError.
JoinInterests(v) ==
    IF v.t = "str" \/ (v.t = "list" /\ \A i \in 1..Len(v.l) : v.l[i].t = "str")
    THEN Ok(v)
    ELSE Raise("TypeError", "can only join an iterable")

\* What generate_itinerary returns: (value, success).
Outcome(value, success) == [value |-> value, success |-> success]

\* The candidate itinerary: the response text through the fence search and
\* json.loads, the response mapping, or the reply itself; a reply of another
\* shape ends the call.
SelectItinerary(rd) ==
    IF "response" \in DOMAIN rd.m /\ rd.m["response"].t = "str"
    THEN LET text == rd.m["response"].s
             json_match == re_search_fence(text)
         IN  IF json_match.found THEN json_loads(json_match.group)
             ELSE json_loads(text)
    ELSE IF "response" \in DOMAIN rd.m /\ rd.m["response"].t = "dict"
    THEN Ok(rd.m["response"])
    ELSE IF "itinerary" \in DOMAIN rd.m THEN Ok(rd)
    ELSE Ok(Absent)

\* "itinerary" not in v
LacksItinerary(v) ==
    CASE v.t = "dict" -> Ok("itinerary" \notin DOMAIN v.m)
      [] v.t = "list" -> Ok(\A i \in 1..Len(v.l) : v.l[i] # Str(<<"itinerary">>))
      [] v.t = "str"  -> Ok(\A i \in 1..Len(v.s) : v.s[i] # "itinerary")
      [] OTHER        -> Raise("TypeError", "argument is not iterable")

\* The entries the two loops keep.
ValidDay(day_entry) == day_entry.t = "dict" /\ "places" \in DOMAIN day_entry.m
ValidPlace(place_data) == place_data.t = "dict" /\ "name" \in DOMAIN place_data.m
PlacesOfDay(day_entry) ==
    IF ValidDay(day_entry) /\ day_entry.m["places"].t = "list"
    THEN SelectSeq(day_entry.m["places"].l, ValidPlace)
    ELSE <<>>

\* How many places the first n days ask the places provider about.
RECURSIVE PlaceCount(_, _)
PlaceCount(days, n) ==
    IF n = 0 THEN 0 ELSE PlaceCount(days, n - 1) + Len(PlacesOfDay(days[n]))

\* One enriched place, from the model's entry and the provider's answer.
EnrichPlace(place_data, destination, up) ==
    LET google == get_place_details(place_data.m["name"], destination, up).out.val.m
        or(key, default) == IF key \in DOMAIN place_data.m
                            THEN place_data.m[key] ELSE default
    IN  Dict([name |-> google["name"],
              description |-> or("description", Str(<<"No description available.">>)),
              suitable_for |-> or("suitable_for", StrList(<<"unknown">>)),
              accessibility |-> or("accessibility", Str(<<"information not available">>)),
              photo_url |-> google["photo_url"],
              map_query |-> google["map_query"],
              address |-> google["address"]])

\* The enrichment loops over a list of day entries: the k-th place asked about
\* meets the k-th outcome of the places provider.
EnrichDays(days, destination, ups_places) ==
    LET kept == SelectSeq(days, ValidDay)
        index(d) == CHOOSE i \in 1..Len(days) :
                        /\ ValidDay(days[i])
                        /\ Cardinality({j \in 1..i : ValidDay(days[j])}) = d
    IN  [d \in 1..Len(kept) |->
            LET day_entry == days[index(d)]
                places == PlacesOfDay(day_entry)
                before == PlaceCount(days, index(d) - 1)
            IN  Dict([day |-> IF "day" \in DOMAIN day_entry.m
                              THEN day_entry.m["day"]
                              ELSE Str(<<"Day ", ToString(d)>>),
                      places |-> List([j \in 1..Len(places) |->
                                    EnrichPlace(places[j], destination,
                                                ups_places[before + j])])])]

\* The body of the try block, for a reply mapping without "raw_response" and
\* the candidate itinerary chosen from it.
ItineraryTry(chosen, destination, ups_places) ==
    LET lacks == IF chosen.val \in {Absent, Null} THEN Ok(TRUE)
                 ELSE LacksItinerary(chosen.val)
        days == chosen.val.m["itinerary"]
    IN  IF chosen.raised THEN Res(chosen, <<>>)
        ELSE IF chosen.val = Absent
        THEN Res(Ok(Outcome(Str(<<"AI response structure not recognized.">>), FALSE)), <<>>)
        ELSE IF lacks.raised THEN Res(lacks, <<>>)
        ELSE IF lacks.val
        THEN Res(Ok(Outcome(Str(<<"AI did not return a valid itinerary.">>), FALSE)), <<>>)
        ELSE IF chosen.val.t # "dict"
        THEN Res(Raise("AttributeError", "object has no attribute 'get'"), <<>>)
        ELSE IF days.t # "list"
        THEN Res(Raise("TypeError", "object is not iterable"), <<>>)
        ELSE Res(Ok(Outcome(
                    Dict([itinerary |-> List(EnrichDays(days.l, destination, ups_places)),
                          transportation |->
                              IF "transportation" \in DOMAIN chosen.val.m
                              THEN chosen.val.m["transportation"]
                              ELSE Str(<<"N/A">>)]),
                    TRUE)),
                 [k \in 1..PlaceCount(days.l, Len(days.l)) |->
                     CallEntry("places", ups_places[k])])

\* What is returned for the gateway's reply rd and the outcome of the try
\* block.
ItineraryReturn(rd, tried, asked) ==
    LET has_error == "error" \in DOMAIN rd.m
    IN  IF Truthy(rd) /\ ~has_error
        THEN IF "raw_response" \in DOMAIN rd.m
             THEN Res(Ok(Outcome(Dict([raw_response |-> rd.m["raw_response"]]), FALSE)),
                      asked)
             ELSE IF Catches("json.JSONDecodeError", tried.out)
             THEN Res(Ok(Outcome(Str(<<"AI response for itinerary was not valid JSON.">>),
                                 FALSE)), asked)
             ELSE IF Catches("Exception", tried.out)
             THEN Res(Ok(Outcome(Str(<<UnexpectedErrorPrefix, tried.out.detail>>), FALSE)),
                      asked \o tried.calls)
             ELSE Res(tried.out, asked \o tried.calls)
        ELSE IF Truthy(rd) /\ has_error
        THEN Res(Ok(Outcome(Str(<<ServiceErrorPrefix>> \o Format(rd.m["error"])), FALSE)),
                 asked)
        ELSE Res(Ok(Outcome(Str(<<"Received unexpected response from AI service.">>),
                            FALSE)), asked)

\* The prompt is built (the join can raise), the gateway is called once, and
\* its reply goes through the try block.
generate_itinerary(trip_data, up_model, ups_places) ==
    LET joined == JoinInterests(trip_data["interests"])
    IN  IF joined.raised THEN Res(joined, <<>>)
        ELSE Apply(make_custom_api_request(up_model).val, LAMBDA rd :
             Apply(SelectItinerary(rd), LAMBDA chosen :
             Apply(ItineraryTry(chosen, trip_data["destination"], ups_places),
                   LAMBDA tried :
                       ItineraryReturn(rd, tried, <<CallEntry("model", up_model)>>))))

----------------------------------------------------------------------------
\* main.py: the handlers. A handler runs from its first line to its return
\* without yielding (it awaits nothing), so it is one step. It is computed
\* from the table, the count of identifiers generated and the answers of the
\* outside world, and gives the response, the calls made, the new table and
\* the new count.

\* A plausible slip: the identifier does not depend on the request.
UuidStr_Fixed(n) == "uuid-" \o ToString(1)

\* str(uuid.uuid4()): an identifier no earlier call returned.
UuidStr(n) == "uuid-" \o ToString(n)

Http(status, body) == [status |-> status, body |-> body]

Handled(resp, made, count, table) ==
    [response |-> resp, calls |-> made, issued |-> count, trip_storage |-> table]

\* TripResponse(...): the error field takes a str or None.
TripResponse(trip_id, status, data, error) ==
    IF error.t \in {"null", "str"}
    THEN Ok(Dict([trip_id |-> Str(<<trip_id>>), status |-> Str(<<status>>),
                  data |-> data, error |-> error]))
    ELSE Raise("ValidationError", "error: Input should be a valid string")

\* A plausible slip: the trip is stored before the work that can fail.
InternalError_KeepsWrite(exc, made, count, table) ==
    Handled(Http(200, TripResponse(UuidStr(count + 1), "error", Null,
                      Str(<<"Internal server error: ", exc.detail>>)).val),
            made, count + 1, Put(table, UuidStr(count), Null))

\* The except clause of /plan-trip and /chat-plan: an error response under
\* one more new identifier.
InternalError(exc, made, count, table) ==
    Handled(Http(200, TripResponse(UuidStr(count + 1), "error", Null,
                      Str(<<"Internal server error: ", exc.detail>>)).val),
            made, count + 1, table)

\* (end_date - start_date).days + 1
Days(start_date, end_date) == end_date - start_date + 1

\* trip_data.update({...}) under "if from_coords and to_coords".
Located(trip_data, from_pair, to_pair) ==
    LET est == get_distance_and_time(from_pair, to_pair)
    IN  IF Truthy(from_pair) /\ Truthy(to_pair)
        THEN [k \in (DOMAIN trip_data)
                     \cup {"distance", "travel_time", "recommended_mode"} |->
                 CASE k = "distance" -> Num(est.distance_km)
                   [] k = "travel_time" -> Num(est.time_estimate)
                   [] k = "recommended_mode" -> Str(<<est.mode>>)
                   [] OTHER -> trip_data[k]]
        ELSE trip_data

\* From the itinerary's outcome to the return: an error response, or the one
\* write to the table and the success response.
PlanReturn(trip_id, trip_data, itin, made, count, table) ==
    LET failed == TripResponse(trip_id, "error", Null, itin.val.value)
        stored == Put(Put(trip_data, "itinerary",
                          GetOr(itin.val.value.m, "itinerary", List(<<>>))),
                      "transportation",
                      GetOr(itin.val.value.m, "transportation", Str(<<"N/A">>)))
    IN  IF itin.raised THEN InternalError(itin, made, count, table)
        ELSE IF ~itin.val.success
        THEN IF failed.raised THEN InternalError(failed, made, count, table)
             ELSE Handled(Http(200, failed.val), made, count, table)
        ELSE Handled(Http(200, TripResponse(trip_id, "success", Dict(stored), Null).val),
                     made, count, Put(table, trip_id, Dict(stored)))

\* "Get coordinates and distance" to the final return, the same in /plan-trip
\* and /chat-plan: the geocoder for origin and destination, the estimate, the
\* forecast, the packing list, the itinerary.
PlanFrom(trip_id, trip_data, env, count, table) ==
    Apply(IF Truthy(trip_data["from_location"])
          THEN geocode_location(trip_data["from_location"], env.geo_from)
          ELSE Res(Ok(Null), <<>>), LAMBDA from :
    IF from.out.raised THEN InternalError(from.out, from.calls, count, table)
    ELSE
    Apply(geocode_location(trip_data["destination"], env.geo_to), LAMBDA to :
    IF to.out.raised
    THEN InternalError(to.out, from.calls \o to.calls, count, table)
    ELSE
    Apply(get_weather_forecast(trip_data["destination"], env.geo_weather, env.weather),
          LAMBDA weather :
    Apply(Put(Put(Located(trip_data, from.out.val, to.out.val),
                  "weather", weather.out.val),
              "packing_list",
              get_packing_list(weather.out.val, trip_data["travelers"])),
          LAMBDA packed :
    Apply(generate_itinerary(packed, env.model_itinerary, env.places), LAMBDA itin :
        PlanReturn(trip_id, packed, itin.out,
                   from.calls \o to.calls \o weather.calls \o itin.calls,
                   count, table))))))

plan_trip(trip_request, env, count, table) ==
    LET trip_id == UuidStr(count + 1)
        start_date == strptime(trip_request.start_date)
        end_date == strptime(trip_request.end_date)
    IN  IF start_date.raised THEN InternalError(start_date, <<>>, count + 1, table)
        ELSE IF end_date.raised THEN InternalError(end_date, <<>>, count + 1, table)
        ELSE Apply([from_location |-> trip_request.from_location,
                    destination |-> trip_request.destination,
                    start_date |-> trip_request.start_date,
                    end_date |-> trip_request.end_date,
                    days |-> Num(Days(start_date.val, end_date.val)),
                    travelers |-> trip_request.travelers,
                    interests |-> trip_request.interests],
                   LAMBDA trip_data :
                       PlanFrom(trip_id, trip_data, env, count + 1, table))

\* Travelers(adults=..., ...): each count, defaulted when the mapping lacks
\* it, has to be an int.
TravelersOf(travelers_dict) ==
    LET counts == [x \in traveler_types |->
                      IF x \in DOMAIN travelers_dict THEN travelers_dict[x]
                      ELSE IF x = "adults" THEN Num(1) ELSE Num(0)]
    IN  IF \A x \in traveler_types : counts[x].t = "num" THEN Ok(Dict(counts))
        ELSE Raise("ValidationError", "Input should be a valid integer")

\* From the extracted details to the return.
ChatPlanFrom(trip_id, extracted_details, env, asked, count, table) ==
    LET travelers == TravelersOf(extracted_details["travelers"].m)
        start_date == strptime(extracted_details["start_date"])
        end_date == strptime(extracted_details["end_date"])
    IN  IF travelers.raised THEN InternalError(travelers, asked, count, table)
        ELSE IF start_date.raised THEN InternalError(start_date, asked, count, table)
        ELSE IF end_date.raised THEN InternalError(end_date, asked, count, table)
        ELSE Apply([from_location |-> extracted_details["origin"],
                    destination |-> extracted_details["destination"],
                    start_date |-> extracted_details["start_date"],
                    end_date |-> extracted_details["end_date"],
                    days |-> Num(Days(start_date.val, end_date.val)),
                    travelers |-> travelers.val,
                    interests |-> extracted_details["interests"]],
                   LAMBDA trip_data :
             Apply(PlanFrom(trip_id, trip_data, env, count, table), LAMBDA rest :
                   [rest EXCEPT !.calls = asked \o rest.calls]))

chat_plan_trip(message, env, count, table) ==
    LET trip_id == UuidStr(count + 1)
        asked == <<CallEntry("model", env.model_extract)>>
    IN  Apply(extract_trip_details_from_prompt(
                  make_custom_api_request(env.model_extract), message).val,
              LAMBDA pair :
        IF Truthy(pair.error)
        THEN Handled(Http(200, TripResponse(trip_id, "error", Null, pair.error).val),
                     asked, count + 1, table)
        ELSE IF ~Truthy(pair.details)
        THEN Handled(Http(200, TripResponse(trip_id, "error", Null,
                              Str(<<"Could not extract trip details from message">>)).val),
                     asked, count + 1, table)
        ELSE ChatPlanFrom(trip_id, pair.details.m, env, asked, count + 1, table))

\* /trip-chat: every outcome is a 200 with "response" or "error".
trip_chat(chat_request, up) ==
    LET rd == make_custom_api_request(up).val
        asked == <<CallEntry("model", up)>>
        response_text ==
            IF "raw_response" \in DOMAIN rd.m THEN rd.m["raw_response"]
            ELSE IF "response" \in DOMAIN rd.m /\ rd.m["response"].t = "str"
            THEN rd.m["response"]
            ELSE Str(<<"Received an unexpected AI response format.">>)
    IN  IF ~Truthy(chat_request.trip_context)
        THEN Res(Http(200, Dict([error |->
                     Str(<<"Trip context is required for trip chat">>)])), <<>>)
        ELSE IF Truthy(rd) /\ "error" \notin DOMAIN rd.m
        THEN Res(Http(200, Dict([response |-> response_text])), asked)
        ELSE Res(Http(200, Dict([error |->
                     IF "error" \in DOMAIN rd.m THEN rd.m["error"]
                     ELSE Str(<<"Failed to get AI response">>)])), asked)

NotFound == Http(404, Dict([detail |-> Str(<<"Trip not found">>)]))

get_trip(trip_id, table) ==
    IF trip_id \notin DOMAIN table THEN NotFound
    ELSE Http(200, Dict([trip_id |-> Str(<<trip_id>>), data |-> table[trip_id]]))

\* A plausible slip: /download-pdf embeds its failures in a 200 response.
download_pdf_Embedded(trip_id, table, built) ==
    IF trip_id \notin DOMAIN table \/ ~built
    THEN Http(200, Dict([error |-> Str(<<"Failed to generate PDF">>)]))
    ELSE Http(200, Dict([file |-> Str(<<"trip_plan_", trip_id, ".pdf">>)]))

\* create_pdf returns whether the file was built.
download_pdf(trip_id, table, built) ==
    IF trip_id \notin DOMAIN table THEN NotFound
    ELSE IF built
    THEN Http(200, Dict([file |-> Str(<<"trip_plan_", trip_id, ".pdf">>)]))
    ELSE Http(500, Dict([detail |-> Str(<<"Failed to generate PDF">>)]))

----------------------------------------------------------------------------
\* What the handlers can meet: requests and the answers of the four outside
\* services.

\* Most identifiers uuid.uuid4() generates in a run.
MaxUuids == 4
\* Most trips the table holds in a run.
MaxTrips == 2

BadGateway == HttpOutcome(500, RawBody(<<"Bad", "gateway">>))
Failures == {TimeoutOutcome, ConnectOutcome, BadGateway}

\* The geocoder's answers: a point of the meridian 2 E, or no result.
GeoFound(lat) ==
    HttpOutcome(200, JsonBody(Dict([
        status |-> Str(<<"OK">>),
        results |-> List(<<Dict([geometry |->
                        Dict([location |-> Dict([lat |-> Num(lat), lng |-> Num(2)])])])>>)])))
GeoZeroResults ==
    HttpOutcome(200, JsonBody(Dict([status |-> Str(<<"ZERO_RESULTS">>),
                                    results |-> List(<<>>)])))

WeatherFound ==
    HttpOutcome(200, JsonBody(Dict([
        main |-> Dict([temp |-> Num(15), humidity |-> Num(60)]),
        weather |-> List(<<Dict([description |-> Str(<<"light rain">>)])>>),
        wind |-> Dict([speed |-> Num(3)])])))
WeatherMalformed == HttpOutcome(200, JsonBody(Dict(EmptyMap)))

\* The places provider's first result carries no photos.
PlaceFound ==
    HttpOutcome(200, JsonBody(Dict([
        status |-> Str(<<"OK">>),
        results |-> List(<<Dict([name |-> Str(<<"Musee du Louvre">>),
                                 formatted_address |-> Str(<<"Rue de Rivoli">>)])>>)])))

\* The model's itinerary: one day, two places.
TwoPlaces ==
    Dict([itinerary |->
              List(<<Dict([day |-> Str(<<"Day 1">>),
                           places |-> List(<<Dict([name |-> Str(<<"Louvre">>)]),
                                             Dict([name |-> Str(<<"Orsay">>)])>>)])>>),
          transportation |-> Str(<<"Metro">>)])
ItineraryReply == HttpOutcome(200, JsonBody(Dict([response |-> TwoPlaces])))
\* An itinerary of no day, with no transportation advice.
ItineraryBare ==
    HttpOutcome(200, JsonBody(Dict([response |-> Dict([itinerary |-> List(<<>>)])])))
ItineraryFenced ==
    HttpOutcome(200, JsonBody(Dict([response |->
        Str(<<"Sure", FenceOpen, "{", "itinerary:[Louvre]", "transportation:Metro", "}",
              FenceClose>>)])))
\* Delivered replies that hold no usable itinerary.
ItineraryUnusable ==
    {HttpOutcome(200, b) :
        b \in {RawBody(<<"Bad", "gateway">>),
               JsonBody(Dict([response |-> Str(<<"Sure">>)])),
               JsonBody(Dict([response |-> Str(<<"{", "itinerary:null", "}">>)])),
               JsonBody(Dict([response |-> Str(<<"[1]">>)])),
               JsonBody(Dict([response |-> Dict([transportation |-> Str(<<"Metro">>)])])),
               JsonBody(Dict([response |-> Num(1)])),
               JsonBody(Dict([done |-> Num(1)])),
               JsonBody(Dict([error |-> Str(<<"model not found">>)]))}}

\* The model's trip details for /chat-plan.
Details(o, s, e, tr, i) ==
    HttpOutcome(200, JsonBody(Dict([response |->
        Dict(MkObj(o, Str(<<"Paris">>), s, e, tr, i))])))
Tomorrow == Str(strftime(Today + 1))
History == List(<<Str(<<"History">>)>>)
DetailsReply == Details(Str(<<"Home">>), Tomorrow, Str(strftime(Today + 2)),
                        FullTravelers, History)
DetailsNoEnd == Details(Str(<<"Home">>), Tomorrow, Absent, FullTravelers, History)
DetailsLateStart ==
    Details(Str(<<"Home">>), Str(strftime(Today + 3)), Absent, FullTravelers, History)
\* Details the handler cannot use.
DetailsUnusable ==
    {Details(Str(<<"Home">>), Tomorrow, Absent, FullTravelers, Absent),
     Details(Num(7), Tomorrow, Absent, FullTravelers, History),
     Details(Str(<<"Home">>), Str(<<"next week">>), Absent, FullTravelers, History),
     Details(Str(<<"Home">>), Tomorrow, Absent,
             Dict([adults |-> Str(<<"two">>)]), History),
     HttpOutcome(200, JsonBody(Dict([response |-> Str(<<"Sure">>)]))),
     HttpOutcome(200, JsonBody(Dict([response |-> Str(ObjParis \o <<"Sure">>)])))}

BaseEnv ==
    [geo_from |-> GeoFound(0), geo_to |-> GeoFound(5), geo_weather |-> GeoFound(5),
     weather |-> WeatherFound, model_extract |-> DetailsReply,
     model_itinerary |-> ItineraryReply, places |-> <<PlaceFound, PlaceFound>>]

\* The base answers with one service answering otherwise.
EnrichmentEnvs ==
    {[BaseEnv EXCEPT !.geo_from = up] : up \in Failures \cup {GeoZeroResults}}
    \cup {[BaseEnv EXCEPT !.geo_to = up] : up \in Failures}
    \cup {[BaseEnv EXCEPT !.geo_weather = up] : up \in Failures}
    \cup {[BaseEnv EXCEPT !.weather = up] : up \in Failures \cup {WeatherMalformed}}
    \cup {[BaseEnv EXCEPT !.places = ups] :
            ups \in {<<TimeoutOutcome, PlaceFound>>, <<BadGateway, BadGateway>>}}
ItineraryEnvs ==
    {[BaseEnv EXCEPT !.model_itinerary = up] :
        up \in Failures \cup ItineraryUnusable \cup {ItineraryFenced, ItineraryBare}}
ExtractEnvs ==
    {[BaseEnv EXCEPT !.model_extract = up] :
        up \in Failures \cup DetailsUnusable \cup {DetailsNoEnd, DetailsLateStart}}
\* Everything is down.
DownEnv ==
    [geo_from |-> TimeoutOutcome, geo_to |-> TimeoutOutcome,
     geo_weather |-> TimeoutOutcome, weather |-> TimeoutOutcome,
     model_extract |-> TimeoutOutcome, model_itinerary |-> TimeoutOutcome,
     places |-> <<TimeoutOutcome, TimeoutOutcome>>]
\* Only the gateway answers.
ModelOnlyEnv ==
    [DownEnv EXCEPT !.model_extract = DetailsReply, !.model_itinerary = ItineraryReply]

BaseRequest ==
    [from_location |-> Str(<<"Home">>), destination |-> Str(<<"Paris">>),
     start_date |-> Tomorrow, end_date |-> Str(strftime(Today + 2)),
     travelers |-> FullTravelers, interests |-> History]
TripRequests ==
    {BaseRequest,
     [BaseRequest EXCEPT !.from_location = Null],
     [BaseRequest EXCEPT !.from_location = Str(<<"Current Location">>)],
     [BaseRequest EXCEPT !.start_date = Str(<<"next week">>)],
     [BaseRequest EXCEPT !.end_date = Str(strftime(Today))]}

\* /plan-trip: the request and the answers it meets.
PlanInputs ==
    (TripRequests \X {BaseEnv})
    \cup ({BaseRequest} \X (EnrichmentEnvs \cup ItineraryEnvs \cup {DownEnv, ModelOnlyEnv}))

\* /chat-plan: the message and the answers it meets.
ChatInputs ==
    ({DefaultPrompt} \X
        ({BaseEnv, DownEnv, ModelOnlyEnv} \cup ExtractEnvs \cup EnrichmentEnvs \cup ItineraryEnvs))
    \cup ({<<ToString(n), "days", "in", "Paris">> : n \in 0..MaxDuration} \X
            {[BaseEnv EXCEPT !.model_extract = DetailsNoEnd]})
    \cup ({DefaultPrompt} \X
            {[DownEnv EXCEPT !.model_extract = up] :
                up \in {DetailsReply,
                        Details(Str(<<"Home">>), Tomorrow, Absent, FullTravelers, Absent)}})

\* /trip-chat: the request and the model's answer.
TripChatInputs ==
    ({[trip_context |-> Null], [trip_context |-> Dict(EmptyMap)]} \X {TimeoutOutcome})
    \cup ({[trip_context |-> Dict([destination |-> Str(<<"Paris">>)])]} \X
            (Failures
             \cup {HttpOutcome(200, b) :
                     b \in {JsonBody(Dict([response |-> Str(<<"Sure">>)])),
                            JsonBody(Dict([response |-> Num(1)])),
                            JsonBody(Dict([done |-> Num(1)])),
                            RawBody(<<"Bad", "gateway">>)}}))

\* Identifiers a client can ask about: generated ones and one that never is.
TripIds == {UuidStr(n) : n \in 1..MaxUuids} \cup {"no-such-trip"}

\* /process: the model's answer.
ProcessInputs ==
    Failures
    \cup {HttpOutcome(200, JsonBody(Envelope(Str(t)))) : t \in {ObjRoute, <<"Sure">>}}
    \cup {HttpOutcome(200, RawBody(<<"Bad", "gateway">>))}

----------------------------------------------------------------------------
\* The state machine of the trip service: requests are handled one at a time.

TripInit ==
    /\ pc = "idle"
    /\ API_KEY \in BOOLEAN
    /\ endpoint = "none"
    /\ user_prompt = <<>>
    /\ upstream = NoCall
    /\ response_data = Ok(Null)
    /\ result = Ok(Null)
    /\ from_coords = Null
    /\ to_coords = Null
    /\ estimate = Null
    /\ StorageAtRest

\* A handler has run on a request's text (the message, the trip_id of the
\* path): its response, its calls and its effect on the table.
Serve(name, text, h) ==
    /\ endpoint' = name
    /\ user_prompt' = text
    /\ http_response' = h.response
    /\ calls' = h.calls
    /\ issued' = h.issued
    /\ trip_storage' = h.trip_storage
    /\ pc' = "done"
    /\ UNCHANGED <<API_KEY, upstream, response_data, result, distanceVars>>

\* Room for the identifiers and the entry a planning request can need.
RoomToPlan ==
    /\ issued + 2 <= MaxUuids
    /\ Cardinality(DOMAIN trip_storage) < MaxTrips

\* POST /plan-trip
PlanTrip ==
    /\ pc = "idle"
    /\ RoomToPlan
    /\ \E in \in PlanInputs :
          \E h \in {plan_trip(in[1], in[2], issued, trip_storage)} :
              Serve("plan-trip", <<>>, h)

\* POST /chat-plan
ChatPlan ==
    /\ pc = "idle"
    /\ RoomToPlan
    /\ \E in \in ChatInputs :
          \E h \in {chat_plan_trip(in[1], in[2], issued, trip_storage)} :
              Serve("chat-plan", in[1], h)

\* POST /trip-chat
TripChat ==
    /\ pc = "idle"
    /\ \E in \in TripChatInputs :
          \E r \in {trip_chat(in[1], in[2])} :
              Serve("trip-chat", DefaultPrompt, Handled(r.out, r.calls, issued, trip_storage))

\* GET /trip/{trip_id}
GetTrip ==
    /\ pc = "idle"
    /\ \E trip_id \in TripIds :
          Serve("trip", <<trip_id>>,
                Handled(get_trip(trip_id, trip_storage), <<>>, issued, trip_storage))

\* GET /download-pdf/{trip_id}
DownloadPdf ==
    /\ pc = "idle"
    /\ \E trip_id \in TripIds, built \in BOOLEAN :
          Serve("download-pdf", <<trip_id>>,
                Handled(download_pdf(trip_id, trip_storage, built), <<>>,
                        issued, trip_storage))

\* POST /process (app.py)
Process ==
    /\ pc = "idle"
    /\ \E up \in ProcessInputs :
          Serve("process", DefaultPrompt,
                Handled(Http(200, process_query(up, API_KEY, DefaultPrompt).val),
                        IF API_KEY THEN <<CallEntry("model", up)>> ELSE <<>>,
                        issued, trip_storage))

\* The response has been sent; the next request can come.
Deliver ==
    /\ pc = "done"
    /\ pc' = "idle"
    /\ endpoint' = "none"
    /\ user_prompt' = <<>>
    /\ calls' = <<>>
    /\ http_response' = Null
    /\ UNCHANGED <<API_KEY, upstream, response_data, result,
                   distanceVars, trip_storage, issued>>

TripNext ==
    \/ PlanTrip
    \/ ChatPlan
    \/ TripChat
    \/ GetTrip
    \/ DownloadPdf
    \/ Process
    \/ Deliver

TripSpec == TripInit /\ [][TripNext]_vars

----------------------------------------------------------------------------
\* Vocabulary of the trip service's properties.

Served(name) == pc = "done" /\ endpoint = name
Planning == pc = "done" /\ endpoint \in {"plan-trip", "chat-plan"}
\* The trip_id of the path of a GET request.
AskedId == user_prompt[1]
\* The status field of a TripResponse body.
TripStatus == http_response.body.m["status"].s[1]
ReturnedId == http_response.body.m["trip_id"].s[1]

\* C12 as stated: only GET /trip/{trip_id} ever answers with another status
\* than 200, and it with 404 for an identifier that is not stored.
C12_Orig_OnlyTripAnswers404 ==
    pc = "done" =>
        /\ endpoint # "trip" => http_response.status = 200
        /\ endpoint = "trip" =>
              /\ http_response.status \in {200, 404}
              /\ http_response.status = 404 <=> AskedId \notin DOMAIN trip_storage

\* C12: /plan-trip, /chat-plan, /trip-chat and /process answer 200 whatever
\* happens, their failures embedded in the body; GET /trip/{trip_id} and
\* GET /download-pdf/{trip_id} answer 404 exactly for an identifier that is
\* not stored, and /download-pdf answers 500 exactly when the identifier is
\* stored and the PDF could not be built.
C12_FailureStatuses ==
    pc = "done" =>
        /\ endpoint \in {"plan-trip", "chat-plan", "trip-chat", "process"} =>
              http_response.status = 200
        /\ (Planning /\ TripStatus # "success") =>
              /\ TripStatus = "error"
              /\ http_response.body.m["error"].t = "str"
              /\ http_response.body.m["data"] = Null
        /\ endpoint \in {"trip", "download-pdf"} =>
              /\ http_response.status = 404 <=> AskedId \notin DOMAIN trip_storage
              /\ http_response.status = 404 => http_response = NotFound
        /\ endpoint = "trip" => http_response.status \in {200, 404}
        /\ endpoint = "download-pdf" => http_response.status \in {200, 404, 500}

\* C12: /download-pdf has answered 500 for a stored trip.
C12_Witness ==
    /\ Served("download-pdf")
    /\ AskedId \in DOMAIN trip_storage
    /\ http_response.status = 500

\* How many calls the request made to a service.
CallCount(svc) == Cardinality({i \in 1..Len(calls) : calls[i].svc = svc})
\* The error text of the response body, "" when it has none.
ErrorText ==
    IF "error" \in DOMAIN http_response.body.m /\ http_response.body.m["error"].t = "str"
    THEN http_response.body.m["error"].s
    ELSE <<>>
ErrorResponse ==
    IF Planning THEN TripStatus = "error" ELSE "error" \in DOMAIN http_response.body.m
\* The places of the itinerary a success response returns.
ReturnedPlaces ==
    LET days == http_response.body.m["data"].m["itinerary"].l
    IN  {<<d, j>> : d \in 1..Len(days), j \in 1..2}
            \cap {<<d, j>> \in (1..Len(days)) \X (1..2) :
                     j <= Len(days[d].m["places"].l)}

\* C13 as stated: each service is called at most once in a request, and the
\* first call that fails is the request's last call and makes its response
\* an error response.
C13_Orig_FirstFailureEnds ==
    pc = "done" =>
        /\ \A svc \in {"model", "geocoder", "weather", "places"} : CallCount(svc) <= 1
        /\ \A i \in 1..Len(calls) :
              calls[i].failed => (i = Len(calls) /\ ErrorResponse)

\* C13: no call is repeated (the gateway is called at most once, twice by
\* /chat-plan; the geocoder at most three times; the weather provider at most
\* once; the places provider once per place returned), and a gateway call that
\* fails is the request's last call and makes its response an error response;
\* a geocoder or weather call that fails is followed by the gateway call for
\* the itinerary unless an internal error ends the request, and a places call
\* that fails leaves the response a success.
C13_GatewayFailureEnds ==
    pc = "done" =>
        /\ CallCount("model") <= (IF endpoint = "chat-plan" THEN 2 ELSE 1)
        /\ CallCount("geocoder") <= 3
        /\ CallCount("weather") <= 1
        /\ (Planning /\ TripStatus = "success") =>
              CallCount("places") = Cardinality(ReturnedPlaces)
        /\ \A i \in 1..Len(calls) :
              /\ (calls[i].svc = "model" /\ calls[i].failed) =>
                    (i = Len(calls) /\ ErrorResponse)
              /\ (calls[i].svc \in {"geocoder", "weather"} /\ calls[i].failed) =>
                    \/ \E j \in (i+1)..Len(calls) : calls[j].svc = "model"
                    \/ (ErrorResponse /\ Head(ErrorText) = "Internal server error: ")
              /\ (calls[i].svc = "places" /\ calls[i].failed) =>
                    TripStatus = "success"

\* C13: a request whose geocoder and weather calls failed has gone on to the
\* gateway and the places provider, one places call has failed too, and the
\* response is a success.
C13_Witness ==
    /\ Planning
    /\ TripStatus = "success"
    /\ \E i, j \in 1..Len(calls) :
          /\ i < j
          /\ calls[i].svc = "geocoder" /\ calls[i].failed
          /\ calls[j].svc = "model" /\ ~calls[j].failed
    /\ \E k \in 1..Len(calls) : calls[k].svc = "places" /\ calls[k].failed

\* C13: the gateway answered the extraction of a /chat-plan request and its
\* call for the itinerary failed, which ended the request with an error.
C13_WitnessGatewayDown ==
    /\ Served("chat-plan")
    /\ Len(calls) > 1
    /\ calls[1].svc = "model" /\ ~calls[1].failed
    /\ calls[Len(calls)].svc = "model" /\ calls[Len(calls)].failed
    /\ TripStatus = "error"

\* The identifiers uuid4 has handed out so far.
IssuedIds == {UuidStr(n) : n \in 1..issued}

\* One step keeps every stored trip as it is and stores at most one trip more,
\* under an identifier generated during that step.
StoredTripsKept ==
    /\ \A id \in DOMAIN trip_storage :
          id \in DOMAIN trip_storage' /\ trip_storage'[id] = trip_storage[id]
    /\ Cardinality(DOMAIN trip_storage' \ DOMAIN trip_storage) <= 1
    /\ \A id \in DOMAIN trip_storage' \ DOMAIN trip_storage :
          id \in IssuedIds' \ IssuedIds

\* GET /trip/{trip_id} of a stored trip answers with the stored data.
StoredTripReturned ==
    (Served("trip") /\ AskedId \in DOMAIN trip_storage) =>
        /\ http_response.status = 200
        /\ http_response.body.m["data"] = trip_storage[AskedId]

\* C14: in every interleaving of requests each write to trip_storage is under
\* an identifier generated for that request, no stored entry is overwritten or
\* removed, and GET /trip/{trip_id} of a stored trip returns the stored data.
C14_StoredTripsArePermanent ==
    [][StoredTripsKept]_vars /\ []StoredTripReturned

\* C14: two requests have stored a trip each and GET /trip/{trip_id} has
\* returned the first of them.
C14_Witness ==
    /\ Served("trip")
    /\ Cardinality(DOMAIN trip_storage) = 2
    /\ AskedId \in DOMAIN trip_storage
    /\ \E other \in DOMAIN trip_storage :
          other # AskedId /\ trip_storage[other] # trip_storage[AskedId]
    /\ http_response.body.m["data"] = trip_storage[AskedId]

\* One step changes trip_storage only by serving a /plan-trip or /chat-plan
\* request with status "success", and then by the one entry under the trip_id
\* of that response; a step that serves an error response leaves it as it was.
StorageOnlyOnSuccess ==
    /\ trip_storage' # trip_storage =>
          /\ Planning'
          /\ TripStatus' = "success"
          /\ DOMAIN trip_storage' \ DOMAIN trip_storage = {ReturnedId'}
          /\ trip_storage'[ReturnedId'] = http_response'.body.m["data"]
    /\ (pc = "idle" /\ ErrorResponse') => trip_storage' = trip_storage

\* C15: a request that ends in an error leaves trip_storage as it was, and
\* trip_storage gains an entry only from a /plan-trip or /chat-plan request
\* whose response has status "success", under the trip_id of that response.
C15_ErrorsLeaveStorage ==
    [][StorageOnlyOnSuccess]_vars

\* C15: with a trip stored, a /chat-plan request has ended in the internal
\* error response and the first trip is still the only one stored.
C15_Witness ==
    /\ Served("chat-plan")
    /\ TripStatus = "error"
    /\ Head(ErrorText) = "Internal server error: "
    /\ Len(calls) > 0
    /\ DOMAIN trip_storage = {UuidStr(1)}
    /\ ReturnedId \notin DOMAIN trip_storage

\* A text of which a later step of the ladder makes an object with an
\* acceptable destination: the text as a whole, or its first "{" to last "}".
LaterStepYields(t) ==
    \/ /\ IsObject(json_loads(t))
       /\ "destination" \in DOMAIN json_loads(t).val.m
       /\ ValidDestination(json_loads(t).val.m["destination"])
    \/ /\ HasBraces(t)
       /\ IsObject(json_loads(BraceSubstring(t)))
       /\ "destination" \in DOMAIN json_loads(BraceSubstring(t)).val.m
       /\ ValidDestination(json_loads(BraceSubstring(t)).val.m["destination"])

\* C16: when the text holds a fenced block whose content does not parse, the
\* extractor goes on to the later steps and returns the record of the first of
\* them that yields an object, instead of reporting failure.
C16_LadderFallsThrough ==
    (Main /\ MainTextReply /\ re_search_fence(ReplyText).found
        /\ json_loads(re_search_fence(ReplyText).group).raised
        /\ LaterStepYields(ReplyText)) =>
        MainSuccess

\* C17: the extractor returns (details, None) or (None, message), never both
\* and never neither; the details it returns hold the six required keys, a
\* destination that is a non-empty string other than 'null', start and end
\* dates that are not null, and a travelers mapping with all five counts.
C17_DetailsOrError ==
    Main =>
        /\ ~result.raised
        /\ (result.val.details = Null) # (result.val.error = Null)
        /\ result.val.error # Null => result.val.error.t = "str"
        /\ result.val.details # Null =>
              /\ result.val.details.t = "dict"
              /\ required_keys \subseteq DOMAIN result.val.details.m
              /\ ValidDestination(result.val.details.m["destination"])
              /\ result.val.details.m["start_date"] # Null
              /\ result.val.details.m["end_date"] # Null
              /\ result.val.details.m["travelers"].t = "dict"
              /\ traveler_types \subseteq DOMAIN result.val.details.m["travelers"].m

\* C17: a reply that names the destination and nothing else has become
\* details with dates and travelers filled in.
C17_Witness ==
    /\ MainSuccess /\ MainTextReply
    /\ ReplyText = ObjParis
    /\ result.val.error = Null
    /\ result.val.details.m["end_date"] = Str(strftime(Today + 2))
    /\ result.val.details.m["travelers"].m["adults"] = Num(0)

\* C18: when the extractor fills in the end date of a reply that has none,
\* the end date is not before the start date, so the trip length that
\* /chat-plan computes from the two is at least one day.
C18_FilledEndNotBeforeStart ==
    (/\ MainSuccess /\ MainObjectReply
     /\ Get(ReplyObject.m, "end_date") = Null
     /\ ~strptime(result.val.details.m["start_date"]).raised
     /\ ~strptime(result.val.details.m["end_date"]).raised) =>
        Days(strptime(result.val.details.m["start_date"]).val,
             strptime(result.val.details.m["end_date"]).val) >= 1

============================================================================
